---- MODULE Spec2Model ----
(***************************************************************************)
(* A model of cci_logger: the Logger class of src/cci_logger.hh and        *)
(* src/cci_logger.cc.                                                      *)
(*                                                                         *)
(* A std::string is a sequence of one-character strings; the byte 0x1b is  *)
(* the element ESC.  One step of the model is one call made by the         *)
(* embedding program (a mutator, an assignment, log<L>()), or one          *)
(* iteration of the prompt loop of ask_continue(), which blocks on         *)
(* standard input between iterations.                                      *)
(***************************************************************************)
EXTENDS Integers, Sequences, FiniteSets, TLC

VARIABLES
    cfg,    \* cfg[o]: the six data members of Logger object o
    tty,    \* what isatty(fileno(stdin)) answers
    cin,    \* the state bits of std::cin: [eof, fail]
    line,   \* the local `line` of ask_continue() (empty outside the loop)
    pc,     \* "idle": the caller runs; "ask": inside the loop of
            \* ask_continue(); "aborted": std::abort() was called
    cur,    \* the call the most recent step belongs to, and how it ended
    io,     \* what the most recent step wrote and whether it called getline
    call    \* the log call the embedding program is about to make, where
            \* the program is a single call (SpecCall); no_call otherwise

vars == <<cfg, tty, cin, line, pc, cur, io, call>>

-----------------------------------------------------------------------------
(* Bounds of the model. *)

\* Longest line the operator types at the prompt.
MaxLineLen == 2

\* Longest time format given to set_time_format in SpecCall.
MaxTimeFmtLen == 4

\* Most pieces (a replacement field or a literal character) of a format
\* string in SpecCall.
MaxFields == 2

\* Most arguments of a log call in SpecCall.
MaxArgs == 2

\* Most words of the return type of a function signature in SpecCall.
MaxRetWords == 2

-----------------------------------------------------------------------------
(* enum LogLevel *)

DEBUG == 0
INFO == 1
WARN == 2
ERROR == 3
LOG_LEVEL_AMOUNT == 4

LogLevel == DEBUG .. (LOG_LEVEL_AMOUNT - 1)

-----------------------------------------------------------------------------
(* Strings. *)

ESC == "\\033"

Digit == <<"0", "1", "2", "3", "4", "5", "6", "7", "8", "9">>

IsDigit(c) == \E d \in 1 .. 10 : Digit[d] = c

DigitValue(c) == (CHOOSE d \in 1 .. 10 : Digit[d] = c) - 1

\* std::to_string / operator<< of a non-negative integer.
RECURSIVE to_string(_)
to_string(n) ==
    IF n < 10 THEN <<Digit[n + 1]>>
    ELSE to_string(n \div 10) \o <<Digit[(n % 10) + 1]>>

\* The decimal number written by a non-empty sequence of digits.
RECURSIVE ToNat(_)
ToNat(s) ==
    IF Len(s) = 1 THEN DigitValue(s[1])
    ELSE 10 * ToNat(SubSeq(s, 1, Len(s) - 1)) + DigitValue(s[Len(s)])

\* out << std::setw(w) << std::setfill('0') << n
RECURSIVE setw_fill0(_, _)
setw_fill0(w, s) == IF Len(s) >= w THEN s ELSE setw_fill0(w, <<"0">> \o s)

\* std::string::npos is size_type(-1); npos + 1 wraps to 0.
npos == -1

\* s.find(c) and s.find_first_of(c) for one character: the 0-based position
\* of its first occurrence, or npos.
find(s, c) ==
    IF \E i \in 1 .. Len(s) : s[i] = c
    THEN (CHOOSE i \in 1 .. Len(s) :
              s[i] = c /\ \A j \in 1 .. (i - 1) : s[j] # c) - 1
    ELSE npos

\* s.substr(pos, n) for pos <= s.size(); n = npos takes the rest.
substr(s, pos, n) ==
    LET last == IF n = npos \/ pos + n > Len(s) THEN Len(s) ELSE pos + n
    IN  SubSeq(s, pos + 1, last)

\* p_fmt.remove_prefix(n)
remove_prefix(s, n) == SubSeq(s, n + 1, Len(s))

\* std::tolower on the characters the operator can type.
tolower(c) ==
    CASE c = "Y" -> "y"
      [] c = "N" -> "n"
      [] OTHER -> c

-----------------------------------------------------------------------------
(* format_time: the time-format mini-language. *)

\* A time value: what system_clock::now() and localtime give.
Times ==
    { [hour |-> 13, min |-> 5, sec |-> 9, ms |-> 42,
       year |-> 2024, mon |-> 1, mday |-> 2],
      [hour |-> 0, min |-> 0, sec |-> 0, ms |-> 0,
       year |-> 1999, mon |-> 12, mday |-> 31] }

\* std::put_time(&tm, "%Y-%m-%d")
put_time_Ymd(now) ==
    setw_fill0(4, to_string(now.year)) \o <<"-">>
        \o setw_fill0(2, to_string(now.mon)) \o <<"-">>
        \o setw_fill0(2, to_string(now.mday))

\* format_time with "%M" tried before "%MS".
RECURSIVE format_time_MinutesFirst(_, _)
format_time_MinutesFirst(p_fmt, now) ==
    IF p_fmt = <<>> THEN <<>>
    ELSE IF p_fmt[1] = "%" /\ Len(p_fmt) >= 2
    THEN IF substr(p_fmt, 0, 2) = <<"%", "M">>
         THEN setw_fill0(2, to_string(now.min))
                  \o format_time_MinutesFirst(remove_prefix(p_fmt, 2), now)
         ELSE IF substr(p_fmt, 0, 3) = <<"%", "M", "S">>
         THEN setw_fill0(3, to_string(now.ms))
                  \o format_time_MinutesFirst(remove_prefix(p_fmt, 3), now)
         ELSE IF substr(p_fmt, 0, 2) = <<"%", "S">>
         THEN setw_fill0(2, to_string(now.sec))
                  \o format_time_MinutesFirst(remove_prefix(p_fmt, 2), now)
         ELSE IF substr(p_fmt, 0, 2) = <<"%", "H">>
         THEN setw_fill0(2, to_string(now.hour))
                  \o format_time_MinutesFirst(remove_prefix(p_fmt, 2), now)
         ELSE IF substr(p_fmt, 0, 2) = <<"%", "D">>
         THEN put_time_Ymd(now)
                  \o format_time_MinutesFirst(remove_prefix(p_fmt, 2), now)
         ELSE <<p_fmt[1]>>
                  \o format_time_MinutesFirst(remove_prefix(p_fmt, 1), now)
    ELSE <<p_fmt[1]>>
             \o format_time_MinutesFirst(remove_prefix(p_fmt, 1), now)

RECURSIVE format_time(_, _)
format_time(p_fmt, now) ==
    IF p_fmt = <<>> THEN <<>>
    ELSE IF p_fmt[1] = "%" /\ Len(p_fmt) >= 2
    THEN IF substr(p_fmt, 0, 3) = <<"%", "M", "S">>
         THEN setw_fill0(3, to_string(now.ms))
                  \o format_time(remove_prefix(p_fmt, 3), now)
         ELSE IF substr(p_fmt, 0, 2) = <<"%", "S">>
         THEN setw_fill0(2, to_string(now.sec))
                  \o format_time(remove_prefix(p_fmt, 2), now)
         ELSE IF substr(p_fmt, 0, 2) = <<"%", "M">>
         THEN setw_fill0(2, to_string(now.min))
                  \o format_time(remove_prefix(p_fmt, 2), now)
         ELSE IF substr(p_fmt, 0, 2) = <<"%", "H">>
         THEN setw_fill0(2, to_string(now.hour))
                  \o format_time(remove_prefix(p_fmt, 2), now)
         ELSE IF substr(p_fmt, 0, 2) = <<"%", "D">>
         THEN put_time_Ymd(now)
                  \o format_time(remove_prefix(p_fmt, 2), now)
         ELSE <<p_fmt[1]>> \o format_time(remove_prefix(p_fmt, 1), now)
    ELSE <<p_fmt[1]>> \o format_time(remove_prefix(p_fmt, 1), now)

-----------------------------------------------------------------------------
(* std::vformat, for the replacement fields the logger's templates use:    *)
(* "{}" (automatic index), "{N}" (manual index), either with a format      *)
(* spec that is a presentation type ("{:d}", "{0:s}"), and the escapes     *)
(* "{{" and "}}".  An argument is [type, str]: its C++ type, "string" or   *)
(* "int", and the text its default formatting writes.  The result is       *)
(* [ok, str]: ok is FALSE when std::format_error is thrown.                *)

format_error == [ok |-> FALSE, str |-> <<>>]

\* A std::string argument.
StrArg(s) == [type |-> "string", str |-> s]

\* An int argument.
IntArg(n) == [type |-> "int", str |-> to_string(n)]

\* format_arg with the presentation type not checked against the argument.
format_arg_AnyType(arg, spec) == [ok |-> TRUE, str |-> arg.str]

\* std::formatter<T>::parse and ::format for the format specs of the model:
\* none, 's' (strings only) and 'd' (integers only); both write what the
\* default formatting writes.
format_arg(arg, spec) ==
    IF spec = <<>> THEN [ok |-> TRUE, str |-> arg.str]
    ELSE IF spec = <<"s">> /\ arg.type = "string"
    THEN [ok |-> TRUE, str |-> arg.str]
    ELSE IF spec = <<"d">> /\ arg.type = "int"
    THEN [ok |-> TRUE, str |-> arg.str]
    ELSE format_error

\* The 0-based position of the first '{' or '}' of s, or npos.
find_brace(s) ==
    LET open  == find(s, "{")
        close == find(s, "}")
    IN  IF open = npos THEN close
        ELSE IF close = npos THEN open
        ELSE IF open < close THEN open ELSE close

\* The scan at a brace: p_fmt[1] is '{' or '}'.  out: what is written so
\* far.  mode: "none" before the first replacement field, then "auto" or
\* "manual" (a format string may not mix the two); next: the next
\* automatic index.  Text between braces is copied as it is.
RECURSIVE vformat_scan(_, _, _, _, _)
vformat_at_brace(p_fmt, args, next, mode, out) ==
    IF p_fmt[1] = "{"
    THEN IF Len(p_fmt) >= 2 /\ p_fmt[2] = "{"
         THEN vformat_scan(remove_prefix(p_fmt, 2), args, next, mode,
                           Append(out, "{"))
         ELSE LET close == find(p_fmt, "}")
                  field == SubSeq(p_fmt, 2, close)
                  colon == find(field, ":")
                  id    == IF colon = npos THEN field
                           ELSE substr(field, 0, colon)
                  spec  == IF colon = npos THEN <<>>
                           ELSE remove_prefix(field, colon + 1)
                  rest  == remove_prefix(p_fmt, close + 1)
              IN  IF close = npos THEN format_error
                  ELSE IF id = <<>>
                  THEN IF mode = "manual" \/ next >= Len(args)
                       THEN format_error
                       ELSE LET written == format_arg(args[next + 1], spec)
                            IN  IF ~written.ok THEN format_error
                                ELSE vformat_scan(rest, args, next + 1,
                                                  "auto", out \o written.str)
                  ELSE IF \A i \in 1 .. Len(id) : IsDigit(id[i])
                  THEN IF mode = "auto" \/ ToNat(id) >= Len(args)
                       THEN format_error
                       ELSE LET written ==
                                    format_arg(args[ToNat(id) + 1], spec)
                            IN  IF ~written.ok THEN format_error
                                ELSE vformat_scan(rest, args, next,
                                                  "manual",
                                                  out \o written.str)
                  ELSE format_error
    ELSE IF Len(p_fmt) >= 2 /\ p_fmt[2] = "}"
         THEN vformat_scan(remove_prefix(p_fmt, 2), args, next, mode,
                           Append(out, "}"))
         ELSE format_error

vformat_scan(p_fmt, args, next, mode, out) ==
    LET brace == find_brace(p_fmt)
    IN  IF brace = npos THEN [ok |-> TRUE, str |-> out \o p_fmt]
        ELSE vformat_at_brace(remove_prefix(p_fmt, brace), args, next, mode,
                              out \o substr(p_fmt, 0, brace))

vformat(p_fmt, args) == vformat_scan(p_fmt, args, 0, "none", <<>>)

\* Logger::format
format(p_fmt, args) == vformat(p_fmt, args)

-----------------------------------------------------------------------------
(* The static tables of Logger. *)

\* m_LOG_LABELS with the plain labels in upper case.
m_LOG_LABELS_Uppercase(T_Level) ==
    CASE T_Level = DEBUG ->
           << <<ESC, "[", "1", ";", "3", "6", "m", "d", "e", "b", "u", "g",
                ESC, "[", "0", ";", "0", ";", "0", "m">>,
              <<"D", "E", "B", "U", "G">> >>
      [] T_Level = INFO ->
           << <<ESC, "[", "1", ";", "3", "2", "m", "i", "n", "f", "o",
                ESC, "[", "0", ";", "0", ";", "0", "m">>,
              <<"I", "N", "F", "O">> >>
      [] T_Level = WARN ->
           << <<ESC, "[", "1", ";", "3", "3", "m", "w", "a", "r", "n",
                ESC, "[", "0", ";", "0", ";", "0", "m">>,
              <<"W", "A", "R", "N">> >>
      [] T_Level = ERROR ->
           << <<ESC, "[", "1", ";", "3", "1", "m", "e", "r", "r", "o", "r",
                ESC, "[", "0", ";", "0", ";", "0", "m">>,
              <<"E", "R", "R", "O", "R">> >>

\* m_LOG_LABELS[T_Level]: <<coloured label, plain label>>
m_LOG_LABELS(T_Level) ==
    CASE T_Level = DEBUG ->
           << <<ESC, "[", "1", ";", "3", "6", "m", "d", "e", "b", "u", "g",
                ESC, "[", "0", ";", "0", ";", "0", "m">>,
              <<"d", "e", "b", "u", "g">> >>
      [] T_Level = INFO ->
           << <<ESC, "[", "1", ";", "3", "2", "m", "i", "n", "f", "o",
                ESC, "[", "0", ";", "0", ";", "0", "m">>,
              <<"i", "n", "f", "o">> >>
      [] T_Level = WARN ->
           << <<ESC, "[", "1", ";", "3", "3", "m", "w", "a", "r", "n",
                ESC, "[", "0", ";", "0", ";", "0", "m">>,
              <<"w", "a", "r", "n">> >>
      [] T_Level = ERROR ->
           << <<ESC, "[", "1", ";", "3", "1", "m", "e", "r", "r", "o", "r",
                ESC, "[", "0", ";", "0", ";", "0", "m">>,
              <<"e", "r", "r", "o", "r">> >>

\* m_LOG_FORMATS: <<coloured template, plain template>>
m_LOG_FORMATS ==
    << <<"[", "{", "0", "}", " ", "{", "1", "}", " ", "a", "t", " ",
         ESC, "[", "1", "m", "{", "2", "}", ESC, "[", "0", "m", "(", " ",
         ESC, "[", "1", ";", "3", "0", "m", "{", "3", "}", ":",
         "{", "4", "}", ESC, "[", "0", ";", "0", "m", " ", ")", "]", ":",
         " ", ESC, "[", "1", "m", "{", "5", "}", ESC, "[", "0", "m", "\n">>,
       <<"[", "{", "0", "}", " ", "{", "1", "}", " ", "a", "t", " ",
         "{", "2", "}", "(", " ", "{", "3", "}", ":", "{", "4", "}", " ",
         ")", "]", ":", " ", "{", "5", "}", "\n">> >>

\* The two messages of ask_continue().
PROMPT ==
    <<"A", "n", " ", "e", "r", "r", "o", "r", " ", "h", "a", "s", " ",
      "o", "c", "c", "u", "r", "e", "d", ",", " ", "d", "o", " ", "y", "o",
      "u", " ", "w", "a", "n", "t", " ", "t", "o", " ", "c", "o", "n", "t",
      "i", "n", "u", "e", "?", " ", "[", "y", "/", "N", "]", " ">>

GUIDANCE ==
    <<"P", "l", "e", "a", "s", "e", " ", "e", "n", "t", "e", "r", " ", "y",
      " ", "o", "r", " ", "n", ".", "\n">>

-----------------------------------------------------------------------------
(* The inputs the embedding program and the operator supply. *)

\* The time format the constructor sets.
TIME_FORMAT_INIT == <<"%", "M", ":", "%", "S", ".", "%", "M", "S">>

\* The default argument of set_time_format.
TIME_FORMAT_DEFAULT_ARG == <<"%", "M", "S", ".", "%", "S", ":", "%", "M">>

\* Arguments given to set_time_format.
TimeFormatArgs == { <<"%", "H", ":", "%", "M", ":", "%", "S">> }

\* Arguments given to set_log_format: a template over {0}..{5}, one that
\* names an argument format() is not given, and the empty string.
LogFormatArgs ==
    { <<"[", "{", "0", "}", "]", " ", "{", "5", "}", "\n">>,
      <<"{", "6", "}">>,
      <<>> }

\* The format string and the arguments of a log call: plain text, one
\* replacement field with its argument, one replacement field with none.
LogCalls ==
    { [fmt |-> <<"T", "e", "s", "t">>, args |-> <<>>],
      [fmt |-> <<"v", "=", "{", "}">>, args |-> <<IntArg(1)>>],
      [fmt |-> <<"{", "}">>, args |-> <<>>] }

\* std::source_location::current() at the call.
Sources ==
    { [file_name |-> <<"t", ".", "c", "c">>,
       function_name |-> <<"i", "n", "t", " ", "m", "a", "i", "n", "(", ")">>,
       line |-> 9] }

\* The characters the operator types at the prompt.
Keys == {"y", "Y", "n", "N", "q"}

\* The sequences of at most n elements of S.
SeqsUpTo(S, n) == UNION { [1 .. k -> S] : k \in 0 .. n }

\* What one read of standard input delivers: the characters up to the next
\* newline, and whether the newline was there (nl = FALSE: the input ended
\* after these characters; no characters and no newline is end-of-input).
StdinReads == [text : SeqsUpTo(Keys, MaxLineLen), nl : BOOLEAN]

-----------------------------------------------------------------------------
(* State. *)

\* Logger::Logger with its argument not used.
Logger_IgnoresLevel(p_loglevel) ==
    [m_threshold_level |-> WARN,
     m_time_format     |-> TIME_FORMAT_INIT,
     m_log_format      |-> <<>>,
     m_coloured        |-> TRUE,
     m_ask_continue    |-> TRUE,
     m_abort_on_err    |-> TRUE]

\* Logger::Logger(p_loglevel); m_log_format is default-constructed.
Logger(p_loglevel) ==
    [m_threshold_level |-> p_loglevel,
     m_time_format     |-> TIME_FORMAT_INIT,
     m_log_format      |-> <<>>,
     m_coloured        |-> TRUE,
     m_ask_continue    |-> TRUE,
     m_abort_on_err    |-> TRUE]

\* The default argument of the constructor: `p_loglevel = WARN`.
LOGLEVEL_DEFAULT_ARG == WARN

no_io == [clog |-> <<>>, cerr |-> <<>>, getline |-> FALSE]

\* The value of `call` where the program is not a single call.
no_call == [kind |-> "none"]

\* The record of a call that is not log(): it returned.
Call(op, o, src, defaulted) ==
    [op |-> op, obj |-> o, src |-> src, defaulted |-> defaulted,
     level |-> LOG_LEVEL_AMOUNT, admitted |-> FALSE, ret |-> "returned",
     thrown |-> "none", written |-> FALSE, tpl |-> <<>>, answer |-> "none"]

\* The record of a constructor call: level is the threshold it was given,
\* defaulted whether that was the default argument.
Constructed(o, p_loglevel, defaulted) ==
    [Call("Logger", o, o, defaulted) EXCEPT !.level = p_loglevel]

\* Every object is constructed with a level, or every object with none.
InitWith(objects) ==
    /\ \E lvl \in [objects -> LogLevel], defaulted \in BOOLEAN :
           LET p_loglevel(o) ==
                   IF defaulted THEN LOGLEVEL_DEFAULT_ARG ELSE lvl[o]
           IN  /\ cfg = [o \in objects |-> Logger(p_loglevel(o))]
               /\ cur = Constructed("logger", p_loglevel("logger"), defaulted)
    /\ tty \in BOOLEAN
    /\ cin = [eof |-> FALSE, fail |-> FALSE]
    /\ line = <<>>
    /\ pc = "idle"
    /\ io = no_io
    /\ call = no_call

Init == InitWith({"logger"})

-----------------------------------------------------------------------------
(* The mutators. *)

Mutate(op, o, field, value, defaulted) ==
    /\ pc = "idle"
    /\ cfg' = [cfg EXCEPT ![o][field] = value]
    /\ cur' = Call(op, o, o, defaulted)
    /\ io' = no_io
    /\ UNCHANGED <<tty, cin, line, pc, call>>

set_time_format(o, p_fmt, defaulted) ==
    Mutate("set_time_format", o, "m_time_format", p_fmt, defaulted)

set_log_format(o, p_fmt) ==
    Mutate("set_log_format", o, "m_log_format", p_fmt, FALSE)

\* set_log_format( void ): m_log_format.clear()
set_log_format_void(o) ==
    Mutate("set_log_format", o, "m_log_format", <<>>, TRUE)

\* abort_on_error storing its argument in m_ask_continue as well.
abort_on_error_AlsoAsk(o, p_abort) ==
    /\ pc = "idle"
    /\ cfg' = [cfg EXCEPT ![o].m_abort_on_err = p_abort,
                          ![o].m_ask_continue = p_abort]
    /\ cur' = Call("abort_on_error", o, o, FALSE)
    /\ io' = no_io
    /\ UNCHANGED <<tty, cin, line, pc, call>>

abort_on_error(o, p_abort) ==
    Mutate("abort_on_error", o, "m_abort_on_err", p_abort, FALSE)

ask_continue_on_error(o, p_ask) ==
    Mutate("ask_continue_on_error", o, "m_ask_continue", p_ask, FALSE)

\* set_coloured_log as if m_coloured were a static member.
set_coloured_log_Static(o, p_coloured) ==
    /\ pc = "idle"
    /\ cfg' = [x \in DOMAIN cfg |-> [cfg[x] EXCEPT !.m_coloured = p_coloured]]
    /\ cur' = Call("set_coloured_log", o, o, FALSE)
    /\ io' = no_io
    /\ UNCHANGED <<tty, cin, line, pc, call>>

set_coloured_log(o, p_coloured) ==
    Mutate("set_coloured_log", o, "m_coloured", p_coloured, FALSE)

\* dst = src: the implicit copy assignment copies every member.
Assign(dst, src) ==
    /\ pc = "idle"
    /\ cfg' = [cfg EXCEPT ![dst] = cfg[src]]
    /\ cur' = Call("assign", dst, src, FALSE)
    /\ io' = no_io
    /\ UNCHANGED <<tty, cin, line, pc, call>>

-----------------------------------------------------------------------------
(* log<T_Level>(p_fmt, p_args...) *)

\* Gated with the comparison off by one.
Gated_OffByOne(T_Level, threshold) == T_Level + 1 < threshold

\* The level gate: `if (T_Level < m_threshold_level) return;`
Gated(T_Level, threshold) == T_Level < threshold

\* function_of without the truncation at '('.
function_of_KeepsParameters(function_name) ==
    substr(function_name, find(function_name, " ") + 1, npos)

\* The bare function name: everything through the first space is dropped,
\* then everything from the first '('.
function_of(function_name) ==
    LET function == substr(function_name, find(function_name, " ") + 1, npos)
    IN  substr(function, 0, find(function, "("))

\* The level label for the current colour setting.
log_level_of(c, T_Level) ==
    IF c.m_coloured THEN m_LOG_LABELS(T_Level)[1] ELSE m_LOG_LABELS(T_Level)[2]

\* log_format_of with the colour flag not consulted.
log_format_of_AlwaysColoured(c) ==
    IF c.m_log_format = <<>> THEN m_LOG_FORMATS[1] ELSE c.m_log_format

\* The local log_format: m_log_format, or the built-in template if empty.
log_format_of(c) ==
    IF c.m_log_format = <<>>
    THEN IF c.m_coloured THEN m_LOG_FORMATS[1] ELSE m_LOG_FORMATS[2]
    ELSE c.m_log_format

\* get_time()
get_time(c, now) == format_time(c.m_time_format, now)

\* The line of an admitted event: [ok, str]; ok is FALSE when the nested or
\* the outer substitution throws std::format_error.
Render(c, T_Level, p_fmt, now) ==
    LET time      == get_time(c, now)
        file      == p_fmt.source.file_name
        function  == function_of(p_fmt.source.function_name)
        line_no   == to_string(p_fmt.source.line)
        log_level == log_level_of(c, T_Level)
        msg       == vformat(p_fmt.fmt, p_fmt.args)
    IN  IF ~msg.ok THEN format_error
        ELSE format(log_format_of(c),
                    <<StrArg(time), StrArg(log_level), StrArg(function), StrArg(file),
                      StrArg(line_no), StrArg(msg.str)>>)

\* print_log(p_msg, p_err): (p_err ? std::cerr : std::clog) << p_msg
print_log(p_msg, p_err) ==
    IF p_err THEN [clog |-> <<>>, cerr |-> <<p_msg>>, getline |-> FALSE]
    ELSE [clog |-> <<p_msg>>, cerr |-> <<>>, getline |-> FALSE]

\* to_cerr with WARN left on the diagnostic stream.
to_cerr_ErrorOnly(T_Level) == T_Level > WARN

\* to_cerr with only WARN sent to the error stream.
to_cerr_WarnOnly(T_Level) == T_Level = WARN

\* The second argument of print_log.
to_cerr(T_Level) == T_Level >= WARN

\* Escalates with m_abort_on_err not consulted.
Escalates_IgnoringFlag(c, T_Level) == T_Level = ERROR

\* `if (T_Level == ERROR && m_abort_on_err)`
Escalates(c, T_Level) == T_Level = ERROR /\ c.m_abort_on_err

\* is_stdin_available with the terminal not probed.
is_stdin_available_Always == TRUE

\* is_stdin_available()
is_stdin_available == tty

\* Aborts with the negation dropped.
Aborts_Inverted(answer) == answer

\* `if (!ask_continue()) std::abort();` for the value ask_continue returned.
Aborts(answer) == ~answer

\* The record of a log call.  ret: "returned", "threw" (std::format_error
\* left log()), "asking" (inside ask_continue()), "aborted".  thrown: the
\* call that threw, "vformat" (the user message) or "format" (the line).
\* written: print_log was called.  tpl: the template handed to format().
\* answer: what ask_continue() returned, once it has.
LogCall(o, T_Level, admitted, ret, thrown, written, tpl, answer) ==
    [op |-> "log", obj |-> o, src |-> o, defaulted |-> FALSE,
     level |-> T_Level, admitted |-> admitted, ret |-> ret,
     thrown |-> thrown, written |-> written, tpl |-> tpl,
     answer |-> answer]

\* log() with the message written before the line is formatted.
log_WritesMessageFirst(o, T_Level, p_fmt, now) ==
    /\ pc = "idle"
    /\ LET c    == cfg[o]
           full == Render(c, T_Level, p_fmt, now)
           msg  == vformat(p_fmt.fmt, p_fmt.args)
           tpl  == IF msg.ok THEN log_format_of(c) ELSE <<>>
       IN  IF Gated(T_Level, c.m_threshold_level)
           THEN /\ cur' = LogCall(o, T_Level, FALSE, "returned", "none",
                                  FALSE, <<>>, "none")
                /\ io' = no_io
                /\ UNCHANGED <<pc, line>>
           ELSE IF ~full.ok
           THEN \* std::format_error leaves log() before print_log
                /\ cur' = LogCall(o, T_Level, TRUE, "threw",
                                  IF msg.ok THEN "format" ELSE "vformat",
                                  FALSE, tpl, "none")
                /\ io' = IF msg.ok
                         THEN print_log(msg.str, to_cerr(T_Level))
                         ELSE no_io
                /\ UNCHANGED <<pc, line>>
           ELSE /\ io' = print_log(full.str, to_cerr(T_Level))
                /\ IF ~Escalates(c, T_Level)
                   THEN /\ cur' = LogCall(o, T_Level, TRUE, "returned",
                                          "none", TRUE, tpl, "none")
                        /\ UNCHANGED <<pc, line>>
                   ELSE IF ~is_stdin_available
                   THEN \* ask_continue() returns false at once
                        /\ cur' = LogCall(o, T_Level, TRUE,
                                          IF Aborts(FALSE) THEN "aborted"
                                          ELSE "returned",
                                          "none", TRUE, tpl, "false")
                        /\ pc' = IF Aborts(FALSE) THEN "aborted" ELSE "idle"
                        /\ UNCHANGED line
                   ELSE /\ cur' = LogCall(o, T_Level, TRUE, "asking",
                                          "none", TRUE, tpl, "none")
                        /\ pc' = "ask"
                        /\ line' = <<>>
    /\ UNCHANGED <<cfg, tty, cin, call>>

log(o, T_Level, p_fmt, now) ==
    /\ pc = "idle"
    /\ LET c    == cfg[o]
           full == Render(c, T_Level, p_fmt, now)
           msg  == vformat(p_fmt.fmt, p_fmt.args)
           tpl  == IF msg.ok THEN log_format_of(c) ELSE <<>>
       IN  IF Gated(T_Level, c.m_threshold_level)
           THEN /\ cur' = LogCall(o, T_Level, FALSE, "returned", "none",
                                  FALSE, <<>>, "none")
                /\ io' = no_io
                /\ UNCHANGED <<pc, line>>
           ELSE IF ~full.ok
           THEN \* std::format_error leaves log() before print_log
                /\ cur' = LogCall(o, T_Level, TRUE, "threw",
                                  IF msg.ok THEN "format" ELSE "vformat",
                                  FALSE, tpl, "none")
                /\ io' = no_io
                /\ UNCHANGED <<pc, line>>
           ELSE /\ io' = print_log(full.str, to_cerr(T_Level))
                /\ IF ~Escalates(c, T_Level)
                   THEN /\ cur' = LogCall(o, T_Level, TRUE, "returned",
                                          "none", TRUE, tpl, "none")
                        /\ UNCHANGED <<pc, line>>
                   ELSE IF ~is_stdin_available
                   THEN \* ask_continue() returns false at once
                        /\ cur' = LogCall(o, T_Level, TRUE,
                                          IF Aborts(FALSE) THEN "aborted"
                                          ELSE "returned",
                                          "none", TRUE, tpl, "false")
                        /\ pc' = IF Aborts(FALSE) THEN "aborted" ELSE "idle"
                        /\ UNCHANGED line
                   ELSE /\ cur' = LogCall(o, T_Level, TRUE, "asking",
                                          "none", TRUE, tpl, "none")
                        /\ pc' = "ask"
                        /\ line' = <<>>
    /\ UNCHANGED <<cfg, tty, cin, call>>

-----------------------------------------------------------------------------
(* ask_continue(): one iteration of `while (true)`. *)

\* std::getline(std::cin, line): nothing is erased and nothing is read when
\* the stream is not good; otherwise line is replaced by what was read,
\* eofbit is set if the input ended before a newline, and failbit is set if
\* no character at all was extracted.
getline(stream, str, read) ==
    IF stream.eof \/ stream.fail
    THEN [cin |-> [stream EXCEPT !.fail = TRUE], line |-> str]
    ELSE [cin |-> [eof |-> ~read.nl, fail |-> read.text = <<>> /\ ~read.nl],
          line |-> read.text]

\* Answer without std::tolower.
Answer_CaseSensitive(str) ==
    IF str = <<>> THEN "false"
    ELSE IF str[1] = "y" THEN "true"
    ELSE IF str[1] = "n" THEN "false"
    ELSE "repeat"

\* What the loop body decides for the line it holds: "false", "true", or
\* "repeat" (the guidance is printed and the loop goes round).
Answer(str) ==
    IF str = <<>> THEN "false"
    ELSE LET answ == tolower(str[1])
         IN  IF answ = "y" THEN "true"
             ELSE IF answ = "n" THEN "false"
             ELSE "repeat"

ask_continue_iter(read) ==
    /\ pc = "ask"
    /\ LET got  == getline(cin, line, read)
           answ == Answer(got.line)
       IN  /\ cin' = got.cin
           /\ IF answ = "repeat"
              THEN /\ io' = [clog |-> <<>>, cerr |-> <<PROMPT, GUIDANCE>>,
                             getline |-> TRUE]
                   /\ line' = got.line
                   /\ UNCHANGED <<pc, cur>>
              ELSE /\ io' = [clog |-> <<>>, cerr |-> <<PROMPT>>,
                             getline |-> TRUE]
                   /\ line' = <<>>
                   /\ pc' = IF Aborts(answ = "true") THEN "aborted"
                            ELSE "idle"
                   /\ cur' = [cur EXCEPT
                                 !.answer = answ,
                                 !.ret = IF Aborts(answ = "true")
                                         THEN "aborted" ELSE "returned"]
    /\ UNCHANGED <<cfg, tty, call>>

-----------------------------------------------------------------------------
(* The program: any sequence of calls on one Logger. *)

Next ==
    \E o \in DOMAIN cfg :
        \/ \E p_fmt \in TimeFormatArgs : set_time_format(o, p_fmt, FALSE)
        \/ set_time_format(o, TIME_FORMAT_DEFAULT_ARG, TRUE)
        \/ \E p_fmt \in LogFormatArgs : set_log_format(o, p_fmt)
        \/ set_log_format_void(o)
        \/ \E p \in BOOLEAN : abort_on_error(o, p)
        \/ \E p \in BOOLEAN : ask_continue_on_error(o, p)
        \/ \E p \in BOOLEAN : set_coloured_log(o, p)
        \/ \E src \in DOMAIN cfg : Assign(o, src)
        \/ \E T_Level \in LogLevel, what \in LogCalls, source \in Sources,
              now \in Times :
               log(o, T_Level,
                   [fmt |-> what.fmt, args |-> what.args, source |-> source],
                   now)
        \/ \E read \in StdinReads : ask_continue_iter(read)

Spec == Init /\ [][Next]_vars

-----------------------------------------------------------------------------------------------------------------------------------------------------
(* Two Loggers with assignment between them, as in main() of test.cc:      *)
(* `Logger logger { DEBUG }` and `Logger other { INFO }`.  Standard input  *)
(* is not a terminal, so ask_continue() never enters its loop, and the     *)
(* calls take fewer argument values than in Spec.                          *)

InitCopy ==
    /\ cfg = [o \in {"logger", "other"} |->
                 IF o = "logger" THEN Logger(DEBUG) ELSE Logger(INFO)]
    /\ tty = FALSE
    /\ cin = [eof |-> FALSE, fail |-> FALSE]
    /\ line = <<>>
    /\ pc = "idle"
    /\ cur = Constructed("other", INFO, FALSE)
    /\ io = no_io
    /\ call = no_call

CopyLogFormatArgs == { <<"[", "{", "0", "}", "]", " ", "{", "5", "}", "\n">> }

CopyLogCalls == { [fmt |-> <<"T", "e", "s", "t">>, args |-> <<>>] }

CopyTimes == { t \in Times : t.hour = 13 }

NextCopy ==
    \E o \in DOMAIN cfg :
        \/ set_time_format(o, TIME_FORMAT_DEFAULT_ARG, TRUE)
        \/ \E p_fmt \in CopyLogFormatArgs : set_log_format(o, p_fmt)
        \/ set_log_format_void(o)
        \/ \E p \in BOOLEAN : abort_on_error(o, p)
        \/ \E p \in BOOLEAN : ask_continue_on_error(o, p)
        \/ \E p \in BOOLEAN : set_coloured_log(o, p)
        \/ \E src \in DOMAIN cfg : Assign(o, src)
        \/ \E T_Level \in LogLevel, what \in CopyLogCalls, source \in Sources,
              now \in CopyTimes :
               log(o, T_Level,
                   [fmt |-> what.fmt, args |-> what.args, source |-> source],
                   now)

SpecCopy == InitCopy /\ [][NextCopy]_vars

-----------------------------------------------------------------------------
(* One log call on a Logger configured for it: the program constructs the  *)
(* Logger, sets the time format, the log format and the colour switch,     *)
(* and makes the call.  `call` holds what the program passes: the three    *)
(* settings, the level, the format string and its arguments, the call      *)
(* site and the time of the call.  Standard input is not a terminal.       *)

\* The number of arguments log() hands to format() after the template.
FormatArgCount == 6

RECURSIVE Flatten(_)
Flatten(ss) == IF ss = <<>> THEN <<>> ELSE Head(ss) \o Flatten(Tail(ss))

\* A signature as the compiler writes it in function_name(): the words of
\* the return type, each followed by a space, the qualified name, and the
\* parameter list in parentheses.
Unparse(sig) ==
    Flatten([i \in 1 .. Len(sig.ret) |-> sig.ret[i] \o <<" ">>])
        \o sig.name \o <<"(">> \o sig.params \o <<")">>

TypeWords == { <<"i", "n", "t">>, <<"l", "o", "n", "g">> }

FunctionNames == { <<"m", "a", "i", "n">>, <<"n", "s", ":", ":", "m">> }

ParameterLists ==
    { <<>>, <<"i", "n", "t">>,
      <<"i", "n", "t", ",", " ", "l", "o", "n", "g">> }

\* Functions, constructors (no return type) included.
Signatures ==
    [ret : SeqsUpTo(TypeWords, MaxRetWords), name : FunctionNames,
     params : ParameterLists]

\* The characters of the time formats: the '%', the token letters, and a
\* character of no token.
TimeChars == {"%", "M", "S", "H", "D", "x"}

TimeFormatStrings == SeqsUpTo(TimeChars, MaxTimeFmtLen)

\* The replacement fields "{}", "{N}", "{:d}", "{:s}", "{N:d}", "{N:s}" for
\* the indices 0 .. top.
FieldsUpTo(top) ==
    { <<"{">> \o id \o spec \o <<"}">> :
          id \in { <<>> } \cup { to_string(k) : k \in 0 .. top },
          spec \in { <<>>, <<":", "d">>, <<":", "s">> } }

\* The format strings of at most MaxFields pieces, a piece being one of
\* those replacement fields or the character 'a'.
FormatStrings(top) ==
    { Flatten(pieces) :
          pieces \in SeqsUpTo(FieldsUpTo(top) \cup { <<"a">> }, MaxFields) }

ArgValues == { StrArg(<<"x">>), IntArg(7) }

ArgLists == SeqsUpTo(ArgValues, MaxArgs)

\* log<INFO>("m") at 13:05:09.042 in `int main()`, on a Logger with the
\* settings of the constructor.
PlainCall ==
    [kind        |-> "plain",
     time_format |-> TIME_FORMAT_INIT,
     log_format  |-> <<>>,
     coloured    |-> TRUE,
     level       |-> INFO,
     fmt         |-> <<"m">>,
     args        |-> <<>>,
     sig         |-> [ret |-> << <<"i", "n", "t">> >>,
                      name |-> <<"m", "a", "i", "n">>, params |-> <<>>],
     now         |-> CHOOSE t \in Times : t.hour = 13]

\* Calls that print the time alone, for every time format.
TimeCalls ==
    { [PlainCall EXCEPT !.kind = "time", !.log_format = <<"{", "0", "}">>,
                        !.time_format = f, !.now = t] :
          f \in TimeFormatStrings, t \in Times }

\* Calls that print the function name alone, for every signature.
SignatureCalls ==
    { [PlainCall EXCEPT !.kind = "signature",
                        !.log_format = <<"{", "2", "}">>, !.sig = g] :
          g \in Signatures }

\* Calls with the built-in template, with and without colour.
ColourCalls ==
    { [PlainCall EXCEPT !.kind = "colour", !.coloured = c, !.level = l,
                        !.fmt = w.fmt, !.args = w.args, !.now = t] :
          c \in BOOLEAN, l \in LogLevel, w \in LogCalls, t \in Times }

\* ERROR calls with every format string and argument list, under the
\* built-in template.
MessageCalls ==
    { [PlainCall EXCEPT !.kind = "format", !.level = ERROR,
                        !.fmt = f, !.args = a] :
          f \in FormatStrings(MaxArgs), a \in ArgLists }

\* ERROR calls with a plain message, under every template.
TemplateCalls ==
    { [PlainCall EXCEPT !.kind = "format", !.level = ERROR,
                        !.log_format = f] :
          f \in FormatStrings(FormatArgCount) }

\* std::source_location::current() at the call: file t.cc, line 9.
SourceOf(sig) ==
    [file_name |-> <<"t", ".", "c", "c">>, function_name |-> Unparse(sig),
     line |-> 9]

InitCall ==
    /\ \/ call \in TimeCalls
       \/ call \in SignatureCalls
       \/ call \in ColourCalls
       \/ call \in MessageCalls
       \/ call \in TemplateCalls
    /\ cfg = [o \in {"logger"} |-> Logger(DEBUG)]
    /\ tty = FALSE
    /\ cin = [eof |-> FALSE, fail |-> FALSE]
    /\ line = <<>>
    /\ pc = "idle"
    /\ cur = Constructed("logger", DEBUG, FALSE)
    /\ io = no_io

NextCall ==
    \/ /\ cur.op = "Logger"
       /\ set_time_format("logger", call.time_format, FALSE)
    \/ /\ cur.op = "set_time_format"
       /\ set_log_format("logger", call.log_format)
    \/ /\ cur.op = "set_log_format"
       /\ set_coloured_log("logger", call.coloured)
    \/ /\ cur.op = "set_coloured_log"
       /\ log("logger", call.level,
              [fmt |-> call.fmt, args |-> call.args,
               source |-> SourceOf(call.sig)],
              call.now)

SpecCall == InitCall /\ [][NextCall]_vars

-----------------------------------------------------------------------------
(* Properties.  The state after a step tells which call the step belongs   *)
(* to (cur) and what the step itself did (io), so most properties are      *)
(* state predicates on the state right after the step.                     *)

\* The most recent step is the one log() call itself ran in (not a later
\* iteration of the prompt loop).
LogStep == cur.op = "log" /\ ~io.getline

\* Whether any write of the most recent step put `s` on the error stream.
OnCerr(s) == \E i \in 1 .. Len(io.cerr) : io.cerr[i] = s

\* An escalation step: a prompt, a read of standard input, or the abort.
Escalated == OnCerr(PROMPT) \/ io.getline \/ pc \in {"ask", "aborted"}

\* A line some log call can render for configuration c at level T_Level.
IsRenderedLine(s, c, T_Level) ==
    \E what \in LogCalls, source \in Sources, now \in Times :
        LET r == Render(c, T_Level,
                        [fmt |-> what.fmt, args |-> what.args,
                         source |-> source], now)
        IN  r.ok /\ r.str = s

\* C1: a log call whose level is below the threshold writes nothing to the
\* diagnostic stream and nothing to the error stream, does not prompt, does
\* not read standard input, does not terminate the process, and returns
\* normally.
C1_GatedCallDoesNothing ==
    (cur.op = "log" /\ cur.level < cfg[cur.obj].m_threshold_level)
        => /\ io = no_io
           /\ pc = "idle"
           /\ cur.ret = "returned"
           /\ ~cur.admitted

\* A WARN call on a Logger whose threshold is ERROR has returned.
C1_Witness ==
    /\ cur.op = "log"
    /\ cur.level = WARN
    /\ cfg[cur.obj].m_threshold_level = ERROR
    /\ cur.ret = "returned"

\* C2: once ask_continue() has returned false in an ERROR call with
\* abort_on_error enabled, the process is aborted and log() has not
\* returned; once it has returned true, log() has returned and the process
\* runs on.
C2_AbortIffDeclined ==
    /\ (cur.op = "log" /\ cur.answer = "false")
           => (pc = "aborted" /\ cur.ret = "aborted")
    /\ (cur.op = "log" /\ cur.answer = "true")
           => (pc = "idle" /\ cur.ret = "returned")
    /\ (cur.op = "log" /\ cur.answer # "none")
           => (cur.level = ERROR /\ cfg[cur.obj].m_abort_on_err
               /\ cur.admitted)

\* The operator answered the prompt with a line starting with y.
C2_Witness ==
    /\ cur.op = "log"
    /\ cur.answer = "true"
    /\ pc = "idle"
    /\ io.getline

\* C3 as stated: every log call below ERROR, and every ERROR call made with
\* abort_on_error off, returns normally without prompting, reading standard
\* input or terminating the process.
C3_NoEscalationReturnsNormally ==
    (cur.op = "log"
        /\ ~(cur.level = ERROR /\ cfg[cur.obj].m_abort_on_err))
        => (cur.ret = "returned" /\ ~Escalated)

\* C3, amended: such a call never prompts, never reads standard input and
\* never terminates the process; it returns normally, or std::format_error
\* leaves it when the message or the template does not format.
C3_EscalationOnlyOnErrorWithAbort ==
    (cur.op = "log"
        /\ ~(cur.level = ERROR /\ cfg[cur.obj].m_abort_on_err))
        => /\ ~Escalated
           /\ cur.ret \in {"returned", "threw"}
           /\ cur.ret = "threw" => cur.thrown \in {"vformat", "format"}

\* An ERROR line was written with abort_on_error off, and log() returned.
C3_Witness ==
    /\ cur.op = "log"
    /\ cur.level = ERROR
    /\ ~cfg[cur.obj].m_abort_on_err
    /\ cur.written
    /\ cur.ret = "returned"

\* C4: once end-of-input has been reached on standard input, an iteration
\* of the prompt loop ends the loop with ask_continue() returning false.
C4_EndOfInputReturnsFalse ==
    [][(pc = "ask" /\ cin.eof) => (pc' # "ask" /\ cur'.answer = "false")]_vars

\* C5 as stated: with standard input not a terminal, no prompt is written
\* and no line is read, and every admitted ERROR event with abort_on_error
\* enabled terminates the process.
C5_NoTerminalAlwaysAborts ==
    ~tty => /\ ~OnCerr(PROMPT) /\ ~io.getline /\ pc # "ask"
            /\ (cur.op = "log" /\ cur.admitted /\ cur.level = ERROR
                    /\ cfg[cur.obj].m_abort_on_err)
                   => pc = "aborted"

\* C5, amended: with standard input not a terminal, no prompt is written
\* and no line is read, and every admitted ERROR event with abort_on_error
\* enabled whose line was formatted and written terminates the process,
\* ask_continue() having returned false.
C5_NoTerminalAbortsAfterLine ==
    ~tty => /\ ~OnCerr(PROMPT) /\ ~io.getline /\ pc # "ask"
            /\ cin = [eof |-> FALSE, fail |-> FALSE]
            /\ (cur.op = "log" /\ cur.admitted /\ cur.level = ERROR
                    /\ cfg[cur.obj].m_abort_on_err /\ cur.ret # "threw")
                   => (pc = "aborted" /\ cur.answer = "false"
                       /\ cur.written /\ Len(io.cerr) = 1)

\* Without a terminal, an ERROR line was written and the process aborted.
C5_Witness ==
    /\ ~tty
    /\ cur.op = "log"
    /\ cur.level = ERROR
    /\ cur.written
    /\ pc = "aborted"

\* C6: an iteration of the prompt loop writes one prompt and calls getline
\* once; an empty line gives false, a line starting with y or Y gives true,
\* a line starting with n or N gives false, and any other line prints the
\* guidance and leaves the loop ready to prompt again.
C6_PromptLoopDecision ==
    [][pc = "ask" =>
         \E read \in StdinReads :
             LET got == getline(cin, line, read).line
             IN  /\ cin' = getline(cin, line, read).cin
                 /\ io'.getline /\ io'.clog = <<>>
                 /\ io'.cerr[1] = PROMPT
                 /\ IF got = <<>> THEN
                        io'.cerr = <<PROMPT>> /\ cur'.answer = "false"
                    ELSE IF got[1] \in {"y", "Y"} THEN
                        io'.cerr = <<PROMPT>> /\ cur'.answer = "true"
                    ELSE IF got[1] \in {"n", "N"} THEN
                        io'.cerr = <<PROMPT>> /\ cur'.answer = "false"
                    ELSE /\ io'.cerr = <<PROMPT, GUIDANCE>>
                         /\ pc' = "ask"
                         /\ cur' = cur
                         /\ line' = got]_vars

\* The loop has just repeated on a line that holds a y but starts with q.
C6_Witness ==
    /\ pc = "ask"
    /\ io.cerr = <<PROMPT, GUIDANCE>>
    /\ line = <<"q", "y">>

\* C7 as stated: the step of every admitted log call writes exactly one
\* line to exactly one stream, the error stream for WARN and ERROR, the
\* diagnostic stream for DEBUG and INFO.
C7_AdmittedWritesOneLine ==
    (LogStep /\ cur.admitted)
        => IF cur.level >= WARN
           THEN Len(io.cerr) = 1 /\ io.clog = <<>>
           ELSE Len(io.clog) = 1 /\ io.cerr = <<>>

\* C7, amended: the step of every admitted log call that std::format_error
\* does not leave writes exactly one rendered line to exactly one stream,
\* the error stream for WARN and ERROR, the diagnostic stream for DEBUG and
\* INFO; a call that std::format_error leaves writes nothing.
C7_FormattedWritesOneLine ==
    (LogStep /\ cur.admitted)
        => IF cur.ret = "threw" THEN io = no_io /\ ~cur.written
           ELSE IF cur.level >= WARN
           THEN /\ Len(io.cerr) = 1 /\ io.clog = <<>>
                /\ IsRenderedLine(io.cerr[1], cfg[cur.obj], cur.level)
           ELSE /\ Len(io.clog) = 1 /\ io.cerr = <<>>
                /\ IsRenderedLine(io.clog[1], cfg[cur.obj], cur.level)

\* A WARN line went to the error stream and nothing to the diagnostic one.
C7_Witness ==
    /\ LogStep
    /\ cur.level = WARN
    /\ cur.written
    /\ Len(io.cerr) = 1
    /\ io.clog = <<>>

\* C8: a call on one Logger leaves every other Logger's six members as they
\* were, hence its gating too, and after dst = src the members of dst are
\* those src had.
C8_ValueSemantics ==
    [][/\ \A o \in DOMAIN cfg :
              o # cur'.obj =>
                  /\ cfg'[o] = cfg[o]
                  /\ \A T_Level \in LogLevel :
                         Gated(T_Level, cfg'[o].m_threshold_level)
                             = Gated(T_Level, cfg[o].m_threshold_level)
       /\ cur'.op = "assign" => cfg'[cur'.obj] = cfg[cur'.src]]_vars

\* After other = logger was made with a changed logger, a mutator call on
\* the copy has made the two differ again.
C8_Witness ==
    /\ cur.op = "set_coloured_log"
    /\ cur.obj = "other"
    /\ cfg["other"].m_threshold_level = DEBUG
    /\ cfg["other"].m_log_format # <<>>
    /\ cfg["other"].m_log_format = cfg["logger"].m_log_format
    /\ ~cfg["logger"].m_abort_on_err
    /\ ~cfg["other"].m_abort_on_err
    /\ cfg["other"].m_coloured # cfg["logger"].m_coloured

\* C9: the template a log call hands to format() is m_log_format when that
\* is not empty, and otherwise the built-in template for the value
\* m_coloured has at the call; it is never the empty string.
C9_TemplateUsed ==
    (cur.op = "log" /\ cur.admitted /\ cur.thrown # "vformat")
        => /\ cur.tpl # <<>>
           /\ cfg[cur.obj].m_log_format # <<>>
                  => cur.tpl = cfg[cur.obj].m_log_format
           /\ (cfg[cur.obj].m_log_format = <<>> /\ cfg[cur.obj].m_coloured)
                  => cur.tpl = m_LOG_FORMATS[1]
           /\ (cfg[cur.obj].m_log_format = <<>> /\ ~cfg[cur.obj].m_coloured)
                  => cur.tpl = m_LOG_FORMATS[2]

\* A line was written with m_log_format empty and colour off.
C9_Witness ==
    /\ LogStep
    /\ cur.written
    /\ cfg[cur.obj].m_log_format = <<>>
    /\ ~cfg[cur.obj].m_coloured
    /\ cur.tpl = m_LOG_FORMATS[2]

\* C10: with m_ask_continue false, an ERROR event does not prompt the
\* operator: no prompt is written and standard input is not read.
C10_AskFlagOffNeverPrompts ==
    (cur.op = "log" /\ ~cfg[cur.obj].m_ask_continue)
        => (~OnCerr(PROMPT) /\ ~io.getline /\ pc # "ask")

\* C11: after set_time_format() is called with no argument, the Logger's
\* time format is the one a freshly constructed Logger has.
C11_DefaultedTimeFormatIsInitial ==
    (cur.op = "set_time_format" /\ cur.defaulted)
        => cfg[cur.obj].m_time_format = Logger(WARN).m_time_format

\* C13: a log call leaves the configuration as it was; one that is gated or
\* leaves by a format error has written nothing, has not prompted, has not
\* read standard input and has not terminated the process, whatever its
\* level; any other has written its one rendered line.
C13_AllOrNothing ==
    [][(cur'.op = "log" /\ ~io'.getline)
           => /\ cfg' = cfg
              /\ (cur'.ret = "threw" \/ ~cur'.admitted)
                     => /\ io' = no_io
                        /\ pc' = pc
                        /\ cin' = cin
                        /\ line' = line
                        /\ ~cur'.written
              /\ (cur'.admitted /\ cur'.ret # "threw")
                     => /\ cur'.written
                        /\ Len(io'.clog) + Len(io'.cerr) = 1
                        /\ \A s \in {io'.clog[i] : i \in 1 .. Len(io'.clog)}
                                \cup {io'.cerr[i] : i \in 1 .. Len(io'.cerr)} :
                               IsRenderedLine(s, cfg[cur'.obj], cur'.level)]_vars

\* An ERROR call with abort_on_error on has left by a format error thrown
\* by the substitution into the line template.
C13_Witness ==
    /\ cur.op = "log"
    /\ cur.level = ERROR
    /\ cfg[cur.obj].m_abort_on_err
    /\ cur.ret = "threw"
    /\ cur.thrown = "format"

\* C17: right after construction the time format is "%M:%S.%MS", the log
\* format is empty, and coloured, ask-continue and abort-on-error are true;
\* the threshold is the level the constructor was given, and WARN when it
\* was given none.
C17_ConstructorDefaults ==
    cur.op = "Logger"
        => /\ cfg[cur.obj] =
                  [m_threshold_level |-> cur.level,
                   m_time_format |->
                       <<"%", "M", ":", "%", "S", ".", "%", "M", "S">>,
                   m_log_format |-> <<>>,
                   m_coloured |-> TRUE,
                   m_ask_continue |-> TRUE,
                   m_abort_on_err |-> TRUE]
           /\ cur.defaulted => cur.level = WARN

\* A Logger constructed with no argument.
C17_Witness ==
    /\ cur.op = "Logger"
    /\ cur.defaulted
    /\ cfg[cur.obj].m_threshold_level = WARN

\* C18: escalation happens only in an ERROR log call that has written its
\* line; the step of the call that goes on to prompt or to abort wrote the
\* complete rendered line, and only it, to the error stream; the prompt is
\* written only by the later steps that read standard input.
C18_LineBeforeEscalation ==
    /\ Escalated => (cur.op = "log" /\ cur.level = ERROR /\ cur.written)
    /\ (LogStep /\ cur.ret \in {"asking", "aborted"})
           => /\ Len(io.cerr) = 1
              /\ IsRenderedLine(io.cerr[1], cfg[cur.obj], ERROR)
              /\ io.clog = <<>>
    /\ OnCerr(PROMPT) => io.getline

\* An ERROR call has written its line and is about to prompt.
C18_Witness ==
    /\ LogStep
    /\ cur.ret = "asking"
    /\ pc = "ask"
    /\ Len(io.cerr) = 1

ConfigFields ==
    {"m_threshold_level", "m_time_format", "m_log_format", "m_coloured",
     "m_ask_continue", "m_abort_on_err"}

\* Every field of every object keeps its value, but for `field` of `o`.
OnlyChanges(o, field) ==
    \A x \in DOMAIN cfg, f \in ConfigFields :
        (x # o \/ f # field) => cfg'[x][f] = cfg[x][f]

\* C19: each mutator leaves every configuration field but its own as it
\* was, no mutator changes the threshold, and a step of log(), the prompt
\* loop of ask_continue() included, changes no configuration field.
C19_OnlyOwnField ==
    [][/\ cur'.op = "set_time_format"
              => OnlyChanges(cur'.obj, "m_time_format")
       /\ cur'.op = "set_log_format"
              => OnlyChanges(cur'.obj, "m_log_format")
       /\ cur'.op = "abort_on_error"
              => OnlyChanges(cur'.obj, "m_abort_on_err")
       /\ cur'.op = "ask_continue_on_error"
              => OnlyChanges(cur'.obj, "m_ask_continue")
       /\ cur'.op = "set_coloured_log"
              => OnlyChanges(cur'.obj, "m_coloured")
       /\ cur'.op = "log" => cfg' = cfg
       /\ cur'.op # "assign"
              => \A x \in DOMAIN cfg :
                     cfg'[x].m_threshold_level = cfg[x].m_threshold_level]_vars

\* abort_on_error(false) was called on a Logger whose other switches are
\* on and whose formats are not the initial ones.
C19_Witness ==
    /\ cur.op = "abort_on_error"
    /\ ~cfg[cur.obj].m_abort_on_err
    /\ cfg[cur.obj].m_ask_continue
    /\ cfg[cur.obj].m_coloured
    /\ cfg[cur.obj].m_time_format # TIME_FORMAT_INIT
    /\ cfg[cur.obj].m_log_format # <<>>

-----------------------------------------------------------------------------
(* Properties of the single call of SpecCall. *)

\* The log call of SpecCall has been made.
Called(kind) == cur.op = "log" /\ call.kind = kind

\* The one line the call wrote to the diagnostic stream, <<>> if it did not.
ClogLine == IF Len(io.clog) = 1 /\ io.cerr = <<>> THEN io.clog[1] ELSE <<>>

\* The positions of the replacement fields of a format string without
\* "{{" and "}}".
FieldStarts(s) == { i \in 1 .. Len(s) : s[i] = "{" }

FieldEnd(s, i) ==
    CHOOSE j \in i + 1 .. Len(s) :
        s[j] = "}" /\ \A k \in i + 1 .. j - 1 : s[k] # "}"

IsAutoField(s, i) == s[i + 1] \in {"}", ":"}

\* The index of the argument the field at i names: the digit it holds, or
\* the number of automatic fields before it.
FieldIndex(s, i) ==
    IF IsAutoField(s, i)
    THEN Cardinality({ j \in FieldStarts(s) : j < i /\ IsAutoField(s, j) })
    ELSE DigitValue(s[i + 1])

\* The presentation type of the field at i, "" if it has none.
FieldType(s, i) ==
    IF FieldEnd(s, i) - i >= 3 /\ s[FieldEnd(s, i) - 2] = ":"
    THEN s[FieldEnd(s, i) - 1] ELSE ""

MixesIndexing(s) ==
    \E i, j \in FieldStarts(s) : IsAutoField(s, i) /\ ~IsAutoField(s, j)

NamesMissingArgument(s, args) ==
    \E i \in FieldStarts(s) : FieldIndex(s, i) >= Len(args)

TypeMisfit(s, args) ==
    \E i \in FieldStarts(s) :
        /\ FieldIndex(s, i) < Len(args)
        /\ \/ FieldType(s, i) = "d" /\ args[FieldIndex(s, i) + 1].type # "int"
           \/ FieldType(s, i) = "s"
                  /\ args[FieldIndex(s, i) + 1].type # "string"

Malformed(s, args) ==
    MixesIndexing(s) \/ NamesMissingArgument(s, args) \/ TypeMisfit(s, args)

\* The template the call's settings select, and six string arguments.
TemplateOfCall ==
    IF call.log_format # <<>> THEN call.log_format
    ELSE IF call.coloured THEN m_LOG_FORMATS[1] ELSE m_LOG_FORMATS[2]

SixStrings == [i \in 1 .. 6 |-> StrArg(<<>>)]

\* C12 as stated: an admitted call throws std::format_error whenever its
\* template holds an index outside 0..5, the number of replacement fields
\* of its format string is not the number of its arguments, or a
\* presentation type does not fit its argument.
C12_AnyMismatchThrows ==
    (Called("format")
         /\ \/ \E i \in FieldStarts(TemplateOfCall) :
                   FieldIndex(TemplateOfCall, i) > 5
            \/ Cardinality(FieldStarts(call.fmt)) # Len(call.args)
            \/ TypeMisfit(call.fmt, call.args)
            \/ TypeMisfit(TemplateOfCall, SixStrings))
        => cur.ret = "threw"

\* C12: an admitted call leaves log() by std::format_error exactly when its
\* format string or its template names an argument that is not supplied,
\* mixes automatic and explicit indices, or holds a presentation type that
\* does not fit its argument; the error comes from the message when the
\* format string is at fault, else from the line; arguments that no field
\* names raise nothing.
C12_MalformedThrows ==
    Called("format")
        => /\ cur.admitted
           /\ cur.ret = "threw"
                  <=> \/ Malformed(call.fmt, call.args)
                      \/ Malformed(TemplateOfCall, SixStrings)
           /\ cur.thrown = "vformat" <=> Malformed(call.fmt, call.args)
           /\ cur.thrown = "format"
                  <=> /\ ~Malformed(call.fmt, call.args)
                      /\ Malformed(TemplateOfCall, SixStrings)
           /\ cur.ret = "threw" => (io = no_io /\ pc = "idle")

\* A call whose template names the argument 6 has thrown.
C12_Witness ==
    /\ Called("format")
    /\ call.log_format = <<"{", "6", "}">>
    /\ cur.ret = "threw"
    /\ cur.thrown = "format"

\* An escape sequence runs from ESC to the next 'm'.
InEscape(s, i) ==
    \E j \in 1 .. i : s[j] = ESC /\ \A k \in j .. i - 1 : s[k] # "m"

\* s with its escape sequences deleted.
Strip(s) ==
    LET keep == { i \in 1 .. Len(s) : ~InEscape(s, i) }
    IN  [r \in 1 .. Cardinality(keep) |->
            s[CHOOSE i \in keep : Cardinality({ j \in keep : j < i }) = r - 1]]

HasEscape(s) == \E i \in 1 .. Len(s) : s[i] = ESC

LevelName(T_Level) ==
    CASE T_Level = DEBUG -> <<"d", "e", "b", "u", "g">>
      [] T_Level = INFO -> <<"i", "n", "f", "o">>
      [] T_Level = WARN -> <<"w", "a", "r", "n">>
      [] T_Level = ERROR -> <<"e", "r", "r", "o", "r">>

\* The line the call wrote, on either stream.
WrittenLine == IF Len(io.cerr) = 1 THEN io.cerr[1] ELSE io.clog[1]

\* C14: with log_format empty, the label and the template a plain Logger
\* uses are those of a coloured Logger with the escape sequences deleted
\* and their text kept, and the line a coloured Logger has written, with
\* its escape sequences deleted, is the line a plain Logger writes for the
\* same call, which holds no escape byte.
C14_PlainIsColouredStripped ==
    (Called("colour") /\ cur.written)
        => LET coloured == [cfg["logger"] EXCEPT !.m_coloured = TRUE]
               plain    == [cfg["logger"] EXCEPT !.m_coloured = FALSE]
               p_fmt    == [fmt |-> call.fmt, args |-> call.args,
                            source |-> SourceOf(call.sig)]
               of_plain == Render(plain, call.level, p_fmt, call.now)
           IN  /\ Strip(log_level_of(coloured, call.level))
                      = log_level_of(plain, call.level)
               /\ log_level_of(plain, call.level) = LevelName(call.level)
               /\ Strip(log_format_of(coloured)) = log_format_of(plain)
               /\ of_plain.ok
               /\ ~HasEscape(of_plain.str)
               /\ Strip(WrittenLine) = of_plain.str
               /\ call.coloured <=> HasEscape(WrittenLine)

\* A coloured WARN line has been written.
C14_Witness ==
    /\ Called("colour")
    /\ cur.written
    /\ call.coloured
    /\ call.level = WARN
    /\ HasEscape(WrittenLine)

\* n in decimal, padded with zeros to two and to three digits.
TwoDigits(n) == <<Digit[((n \div 10) % 10) + 1], Digit[(n % 10) + 1]>>

ThreeDigits(n) == <<Digit[((n \div 100) % 10) + 1]>> \o TwoDigits(n)

\* The tokens of the time format and what each stands for at time t.
TimeTokens(t) ==
    { [token |-> <<"%", "M", "S">>, text |-> ThreeDigits(t.ms)],
      [token |-> <<"%", "S">>, text |-> TwoDigits(t.sec)],
      [token |-> <<"%", "M">>, text |-> TwoDigits(t.min)],
      [token |-> <<"%", "H">>, text |-> TwoDigits(t.hour)],
      [token |-> <<"%", "D">>,
       text |-> TwoDigits(t.year \div 100) \o TwoDigits(t.year) \o <<"-">>
                    \o TwoDigits(t.mon) \o <<"-">> \o TwoDigits(t.mday)] }

\* s read left to right, the longest token at each position replaced by
\* its text and every other character copied.
RECURSIVE LongestMatch(_, _)
LongestMatch(s, t) ==
    IF s = <<>> THEN <<>>
    ELSE LET here == { k \in TimeTokens(t) :
                           /\ Len(k.token) <= Len(s)
                           /\ SubSeq(s, 1, Len(k.token)) = k.token }
         IN  IF here = {}
             THEN <<s[1]>> \o LongestMatch(Tail(s), t)
             ELSE LET k == CHOOSE x \in here :
                               \A y \in here : Len(y.token) <= Len(x.token)
                  IN  k.text
                          \o LongestMatch(SubSeq(s, Len(k.token) + 1, Len(s)),
                                          t)

\* C15: for every time format and time, the rendered time is the format
\* read left to right with the longest token at each position replaced and
\* every other character copied: the call does not fail, "%MS" gives the
\* milliseconds, the empty format gives the empty string, and a format
\* without '%' is returned as it is.
C15_LongestTokenFirst ==
    Called("time")
        => /\ cur.ret = "returned"
           /\ cur.written
           /\ ClogLine = LongestMatch(call.time_format, call.now)
           /\ call.time_format = <<"%", "M", "S">>
                  => ClogLine = ThreeDigits(call.now.ms)
           /\ (\A i \in 1 .. Len(call.time_format) :
                   call.time_format[i] # "%")
                  => ClogLine = call.time_format

\* "%MS%" at 13:05:09.042 has been rendered as "042%".
C15_Witness ==
    /\ Called("time")
    /\ call.time_format = <<"%", "M", "S", "%">>
    /\ ClogLine = <<"0", "4", "2", "%">>

\* The text after the first space of s (s itself if it has none), up to
\* its first '(' (all of it if it has none).
AfterFirstSpace(s) ==
    IF \E i \in 1 .. Len(s) : s[i] = " "
    THEN SubSeq(s, 1 + CHOOSE i \in 1 .. Len(s) :
                        s[i] = " " /\ \A j \in 1 .. i - 1 : s[j] # " ",
                Len(s))
    ELSE s

BeforeFirstParen(s) ==
    IF \E i \in 1 .. Len(s) : s[i] = "("
    THEN SubSeq(s, 1, (CHOOSE i \in 1 .. Len(s) :
                           s[i] = "(" /\ \A j \in 1 .. i - 1 : s[j] # "(") - 1)
    ELSE s

\* C16 as stated: for every signature the extracted function name is the
\* name of the function, without return type and parameter list.
C16_ExtractsBareName ==
    Called("signature") => ClogLine = call.sig.name

\* C16: for every signature the extracted function name is the text after
\* the first space truncated at its first '('; it is the name of the
\* function when the return type is a single word.
C16_AfterFirstSpaceToParen ==
    Called("signature")
        => /\ ClogLine = BeforeFirstParen(AfterFirstSpace(Unparse(call.sig)))
           /\ Len(call.sig.ret) = 1 => ClogLine = call.sig.name

\* "int ns::m(int, long)" has given "ns::m".
C16_Witness ==
    /\ Called("signature")
    /\ Unparse(call.sig) =
           <<"i", "n", "t", " ", "n", "s", ":", ":", "m", "(", "i", "n", "t",
             ",", " ", "l", "o", "n", "g", ")">>
    /\ ClogLine = <<"n", "s", ":", ":", "m">>

====
